---- MODULE Spec2Model ----
(***************************************************************************)
(* Row search (src/src/btree/row_srch.c) and backward cursor iteration     *)
(* (src/src/btree/bt_curprev.c) of the B-tree layer, as a state machine.   *)
(*                                                                         *)
(* A tree is one of three layouts: a row store (a root leaf, or a root     *)
(* internal page over several row leaves), a fixed-length column leaf, or  *)
(* a variable-length (RLE) column leaf.  The cursor is the WT_CURSOR_BTREE *)
(* structure; one call of __wt_btcur_prev is a sequence of steps (pc), so  *)
(* that a writer publishing insert-list nodes can interleave with the      *)
(* reader's pointer reads.                                                 *)
(***************************************************************************)
EXTENDS Integers, Sequences, FiniteSets, TLC

VARIABLES
    btree,      \* the tree: layout and page contents
    cbt,        \* WT_CURSOR_BTREE: the cursor's position fields
    cursor,     \* WT_CURSOR (cbt->iface): key, value, recno, flags
    pc,         \* position of the call in progress ("idle" between calls)
    lv,         \* C locals of the call in progress (newpage, ins, i)
    ret,        \* return value of the last completed call
    call,       \* the call in progress or last completed: operation and inputs
    out,        \* records returned since the cursor was last cleared
    wlog,       \* keys a writer has published since the cursor was last cleared
    hazard      \* pages the session holds: the root in use, or a pinned page

vars == <<btree, cbt, cursor, pc, lv, ret, call, out, wlog, hazard>>

(***************************************************************************)
(* Bounds of the model.                                                    *)
(***************************************************************************)
MaxKey == 3          \* row-store keys are 1..MaxKey
MaxLeaves == 2       \* row leaves under the root
WT_SKIP_MAXDEPTH == 2    \* skip-list levels (scaled down from the header's value)

NULL == 0 - 1        \* the C NULL pointer (pages, nodes and lists are >= 0)

Keys == 1..MaxKey

(***************************************************************************)
(* Small helpers.                                                          *)
(***************************************************************************)
SetMin(S) == CHOOSE x \in S : \A y \in S : x <= y

SetMax(S) == CHOOSE x \in S : \A y \in S : x >= y

RECURSIVE AscSeq(_)
AscSeq(S) == IF S = {} THEN <<>> ELSE <<SetMin(S)>> \o AscSeq(S \ {SetMin(S)})

(***************************************************************************)
(* Row-store data model.                                                   *)
(*                                                                         *)
(* btree.kstate[k] says where key k lives: nowhere, in a WT_ROW slot of    *)
(* its leaf (with an optional WT_UPDATE and an optional value cell), or    *)
(* in a WT_INSERT node (with its WT_UPDATE and its skip-list depth).       *)
(* btree.route is the ascending sequence of routing keys of the root       *)
(* internal page (entries 1.., entry 0 has no compared key); leaf p holds  *)
(* the keys from its routing key up to the next one.                       *)
(***************************************************************************)
Absent == [loc |-> "none", upd |-> "none", cell |-> FALSE, depth |-> 0]

SlotStates ==
    { [loc |-> "slot", upd |-> u, cell |-> c, depth |-> 0] :
        u \in {"none", "live", "del"}, c \in BOOLEAN }

InsStates ==
    { [loc |-> "ins", upd |-> u, cell |-> FALSE, depth |-> d] :
        u \in {"live", "del"}, d \in 1..WT_SKIP_MAXDEPTH }

\* A slot that has a WT_UPDATE never consults its cell: keep one cell choice.
KStates ==
    {Absent} \cup {s \in SlotStates : s.upd = "none" \/ s.cell} \cup InsStates

NumLeaves == Len(btree.route) + 1

Leaves == 1..NumLeaves

\* The root internal page, when there is one (page ids: leaves, then root).
RootInt == NumLeaves + 1

PageLo(p) == IF p = 1 THEN 1 ELSE btree.route[p - 1]

PageHi(p) == IF p = NumLeaves THEN MaxKey + 1 ELSE btree.route[p]

OnPage(p) == {k \in Keys : PageLo(p) <= k /\ k < PageHi(p)}

\* page->u.row_leaf.d: the sorted WT_ROW array, and page->entries.
RowKeys(p) == AscSeq({k \in OnPage(p) : btree.kstate[k].loc = "slot"})

Entries(p) == Len(RowKeys(p))

\* page->u.row_leaf.ins[idx]: the keys on the insert list of array index idx.
\* Index s < entries is the list following slot s; index entries is the
\* extra list that precedes slot 0.
InsKeys(p, idx) ==
    LET rk == RowKeys(p)
        n == Len(rk)
        all == {k \in OnPage(p) : btree.kstate[k].loc = "ins"}
    IN  IF idx = n
        THEN {k \in all : n = 0 \/ k < rk[1]}
        ELSE {k \in all : k > rk[idx + 1] /\ (idx + 2 > n \/ k < rk[idx + 2])}

\* Values: the on-page value cell, the WT_UPDATE payload, the empty value.
CellVal(k) == 100 + k

UpdVal(k) == 200 + k

EmptyVal == 0

(***************************************************************************)
(* Insert-list macros.  A list head is allocated with its first node, so   *)
(* the head pointer of an empty list is NULL; a head is named by its       *)
(* index in the page's insert array.                                       *)
(***************************************************************************)
WT_ROW_INSERT_SLOT(p, slot) == IF InsKeys(p, slot) = {} THEN NULL ELSE slot

WT_ROW_INSERT_SMALLEST(p) == WT_ROW_INSERT_SLOT(p, Entries(p))

WT_SKIP_FIRST(p, head) ==
    IF head = NULL \/ InsKeys(p, head) = {} THEN NULL ELSE SetMin(InsKeys(p, head))

WT_SKIP_NEXT(p, head, ins) ==
    LET after == {k \in InsKeys(p, head) : k > ins}
    IN  IF after = {} THEN NULL ELSE SetMin(after)

(***************************************************************************)
(* Cursor.                                                                 *)
(***************************************************************************)
\* __wt_cursor_clear / __search_reset: the cursor holds no position.
\* slot: UINT32_MAX ("fail big") is written NULL.
CbtClear ==
    [page |-> NULL, rip |-> NULL, slot |-> NULL, ins_head |-> NULL, ins |-> NULL,
     match |-> 0, write_gen |-> 0,
     ins_stack |-> [i \in 0..(WT_SKIP_MAXDEPTH - 1) |-> NULL],
     ins_entry_cnt |-> 0, ret_slot |-> FALSE, ret_insert |-> FALSE,
     recno |-> 0, nslots |-> 0, rle_return_cnt |-> 0, cip |-> NULL, value |-> 0]

\* cmp: the comparison result held on entry to an internal page's search.
CallNone == [op |-> "none", key |-> 0, modify |-> FALSE, cmp |-> 0 - 1]

CursorClear == [key |-> 0, value |-> 0, recno |-> 0, set |-> FALSE]

\* page, ret: the locals of __wt_row_search.
LvClear == [newpage |-> FALSE, ins |-> NULL, i |-> 0, page |-> NULL, ret |-> "NONE"]

(***************************************************************************)
(* __wt_xxx_np(session, &page, 0): the page-walk collaborator, backwards.  *)
(* From no page it yields the last leaf, from a leaf the leaf before it,   *)
(* after the first leaf the internal parent, and after the root nothing.   *)
(***************************************************************************)
PageType(p) ==
    IF btree.type = "fix" THEN "col_fix"
    ELSE IF btree.type = "var" THEN "col_var"
    ELSE IF p = RootInt THEN "row_int" ELSE "row_leaf"

\* A column tree is modelled as its root leaf alone.
TreeRoot == IF btree.type # "row" \/ NumLeaves = 1 THEN 1 ELSE RootInt

LastLeaf == IF btree.type # "row" THEN 1 ELSE NumLeaves

WalkPrev(p) ==
    IF p = NULL THEN LastLeaf
    ELSE IF p = TreeRoot THEN NULL
    ELSE IF p = 1 THEN RootInt
    ELSE p - 1

(***************************************************************************)
(* __wt_btcur_prev: end of a call.                                         *)
(***************************************************************************)
\* Mutant: the flags are set whatever is returned.
ReturnSetsFlags(r, c, rec) ==
    /\ ret' = r
    /\ pc' = "idle"
    /\ cursor' = [c EXCEPT !.set = TRUE]
    /\ out' = IF r = "OK" THEN Append(out, rec) ELSE out
    /\ lv' = LvClear
    /\ UNCHANGED <<call, wlog, hazard>>

\* err: / return: the flags are set again only on success (lines 370-374).
Return(r, c, rec) ==
    /\ ret' = r
    /\ pc' = "idle"
    /\ cursor' = IF r = "OK" THEN [c EXCEPT !.set = TRUE] ELSE c
    /\ out' = IF r = "OK" THEN Append(out, rec) ELSE out
    /\ lv' = LvClear
    /\ UNCHANGED <<call, wlog, hazard>>

(***************************************************************************)
(* __wt_btcur_last / __wt_btcur_prev: start of a call.                     *)
(***************************************************************************)
\* Lines 326-334: clear the flags; the walk loop starts with newpage = 0.
BtcurLast ==
    /\ pc = "idle"
    /\ ret # "CRASH"
    /\ cbt' = CbtClear
    /\ cursor' = CursorClear
    /\ out' = <<>>
    /\ wlog' = {}
    /\ lv' = LvClear
    /\ pc' = "loop"
    /\ call' = [CallNone EXCEPT !.op = "prev"]
    /\ UNCHANGED <<btree, ret, hazard>>

BtcurPrev ==
    /\ pc = "idle"
    /\ ret = "OK" /\ call.op = "prev"
    /\ cursor' = [cursor EXCEPT !.set = FALSE]
    /\ lv' = LvClear
    /\ pc' = "loop"
    /\ UNCHANGED <<btree, cbt, ret, call, out, wlog, hazard>>

\* Lines 341-360, row leaf: enter __prev_row with the loop's newpage.
PrevLoopRow ==
    /\ pc = "loop"
    /\ cbt.page # NULL
    /\ PageType(cbt.page) = "row_leaf"
    /\ pc' = IF lv.newpage THEN "row_new" ELSE "row_top"
    /\ UNCHANGED <<btree, cbt, cursor, lv, ret, call, out, wlog, hazard>>

\* Line 342: no page is held, go straight to the page walk.
PrevLoopNoPage ==
    /\ pc = "loop"
    /\ cbt.page = NULL
    /\ pc' = "np"
    /\ UNCHANGED <<btree, cbt, cursor, lv, ret, call, out, wlog, hazard>>

\* Lines 362-367: ask for the previous page until it is a leaf, or none.
PrevWalkPage ==
    /\ pc = "np"
    /\ LET p == WalkPrev(cbt.page)
       IN  IF p = NULL
           THEN /\ cbt' = [cbt EXCEPT !.page = NULL]
                /\ Return("WT_NOTFOUND", cursor, <<>>)
                /\ UNCHANGED btree
           ELSE /\ cbt' = [cbt EXCEPT !.page = p]
                /\ pc' = IF PageType(p) = "row_int" THEN "np" ELSE "loop"
                /\ lv' = [lv EXCEPT !.newpage = TRUE]
                /\ UNCHANGED <<btree, cursor, ret, call, out, wlog, hazard>>

(***************************************************************************)
(* __prev_row.                                                             *)
(***************************************************************************)
\* d[slot], ins[slot] exist only for these slots; anything else reads
\* outside the page's arrays.
SlotInPage(p, slot) == slot >= 0 /\ slot < Entries(p)

\* Reading outside the WT_ROW array: the build either faults, or returns
\* whatever bytes it finds there as a record.
RowOutOfBounds ==
    \/ /\ ret' = "CRASH"
       /\ pc' = "idle"
       /\ UNCHANGED <<btree, cbt, cursor, lv, call, out, wlog, hazard>>
    \/ \E k \in Keys :
        /\ Len(out) < MaxKey
        /\ cbt' = [cbt EXCEPT !.slot = NULL, !.ret_slot = FALSE]
        /\ Return("OK", [cursor EXCEPT !.key = k, !.value = EmptyVal],
                  [key |-> k, value |-> EmptyVal, src |-> "garbage", at |-> NULL])
        /\ UNCHANGED btree

\* Lines 199-203: new page configuration, up to the first list read.
PrevRowNewPage ==
    /\ pc = "row_new"
    /\ IF Entries(cbt.page) = 0
       THEN RowOutOfBounds
       ELSE LET head == WT_ROW_INSERT_SLOT(cbt.page, Entries(cbt.page) - 1)
                first == WT_SKIP_FIRST(cbt.page, head)
            IN  /\ cbt' = [cbt EXCEPT !.ins_head = head, !.ins = first,
                                      !.ins_entry_cnt = 0]
                /\ lv' = [lv EXCEPT !.ins = first]
                /\ pc' = "row_new_cnt"
                /\ UNCHANGED <<btree, cursor, ret, call, out, wlog, hazard>>

\* Lines 204-207: WT_SKIP_FOREACH counts the list, one node per step.
PrevRowNewCount ==
    /\ pc = "row_new_cnt"
    /\ IF lv.ins # NULL
       THEN /\ cbt' = [cbt EXCEPT !.ins_entry_cnt = @ + 1]
            /\ lv' = [lv EXCEPT !.ins = WT_SKIP_NEXT(cbt.page, cbt.ins_head, lv.ins)]
            /\ UNCHANGED pc
       ELSE /\ cbt' = [cbt EXCEPT !.slot = Entries(cbt.page) - 1,
                                  !.ret_slot = TRUE, !.ret_insert = TRUE]
            /\ pc' = "row_top"
            /\ UNCHANGED lv
    /\ UNCHANGED <<btree, cursor, ret, call, out, wlog, hazard>>

\* Lines 217-225: the top of the loop when an insert list is being walked.
PrevRowInsert ==
    /\ pc = "row_top"
    /\ cbt.ins_head # NULL /\ cbt.ins_entry_cnt # 0
    /\ LET cnt == IF cbt.ret_insert THEN cbt.ins_entry_cnt
                  ELSE cbt.ins_entry_cnt - 1
       IN  /\ cbt' = [cbt EXCEPT !.ret_insert = FALSE, !.ins_entry_cnt = cnt]
           /\ IF cnt = 0
              THEN UNCHANGED <<pc, lv>>
              ELSE /\ pc' = "row_walk"
                   /\ lv' = [lv EXCEPT !.i = cnt,
                                       !.ins = WT_SKIP_FIRST(cbt.page, cbt.ins_head)]
    /\ UNCHANGED <<btree, cursor, ret, call, out, wlog, hazard>>

\* Lines 223-234: walk forward to the i-th node, then return it unless deleted.
PrevRowWalk ==
    /\ pc = "row_walk"
    /\ IF lv.i > 1
       THEN /\ lv' = [lv EXCEPT !.i = @ - 1,
                                !.ins = WT_SKIP_NEXT(cbt.page, cbt.ins_head, lv.ins)]
            /\ UNCHANGED <<btree, cbt, cursor, pc, ret, call, out, wlog, hazard>>
       ELSE IF btree.kstate[lv.ins].upd = "del"
       THEN /\ pc' = "row_top"
            /\ UNCHANGED <<btree, cbt, cursor, lv, ret, call, out, wlog, hazard>>
       ELSE /\ Return("OK",
                      [cursor EXCEPT !.key = lv.ins, !.value = UpdVal(lv.ins)],
                      [key |-> lv.ins, value |-> UpdVal(lv.ins),
                       src |-> "ins", at |-> cbt.ins_head])
            /\ UNCHANGED <<btree, cbt>>

\* Lines 241-257: the slot step, up to the first read of the preceding list.
PrevRowSlotStep ==
    /\ pc = "row_top"
    /\ ~(cbt.ins_head # NULL /\ cbt.ins_entry_cnt # 0)
    /\ IF ~cbt.ret_slot /\ cbt.slot = 0
       THEN /\ pc' = "np"
            /\ UNCHANGED <<btree, cbt, cursor, lv, ret, call, out, wlog, hazard>>
       ELSE LET slot == IF cbt.ret_slot THEN cbt.slot ELSE cbt.slot - 1
            IN  IF ~SlotInPage(cbt.page, slot)
                THEN RowOutOfBounds
                ELSE LET head == IF slot = 0
                                 THEN WT_ROW_INSERT_SMALLEST(cbt.page)
                                 ELSE WT_ROW_INSERT_SLOT(cbt.page, slot - 1)
                     IN  /\ cbt' = [cbt EXCEPT !.ret_slot = FALSE, !.slot = slot,
                                               !.ins_head = head,
                                               !.ins_entry_cnt = 0]
                         /\ lv' = [lv EXCEPT !.ins = WT_SKIP_FIRST(cbt.page, head)]
                         /\ pc' = "row_cnt"
                         /\ UNCHANGED <<btree, cursor, ret, call, out, wlog, hazard>>

\* Lines 258-260: count the list that precedes the slot, one node per step.
PrevRowCount ==
    /\ pc = "row_cnt"
    /\ IF lv.ins # NULL
       THEN /\ cbt' = [cbt EXCEPT !.ins_entry_cnt = @ + 1]
            /\ lv' = [lv EXCEPT !.ins = WT_SKIP_NEXT(cbt.page, cbt.ins_head, lv.ins)]
            /\ UNCHANGED pc
       ELSE /\ cbt' = [cbt EXCEPT !.ret_insert = TRUE]
            /\ pc' = "row_slot"
            /\ UNCHANGED lv
    /\ UNCHANGED <<btree, cursor, ret, call, out, wlog, hazard>>

\* WT_ROW_UPDATE(page, rip): the slot's WT_UPDATE, if any.
WT_ROW_UPDATE(p, slot) == btree.kstate[RowKeys(p)[slot + 1]].upd

\* Mutant: the on-page cell is preferred to the slot's update.
RowSlotValueCellFirst(p, slot) ==
    LET k == RowKeys(p)[slot + 1]
    IN  IF btree.kstate[k].cell THEN CellVal(k)
        ELSE IF WT_ROW_UPDATE(p, slot) # "none" THEN UpdVal(k)
        ELSE EmptyVal

\* Lines 289-297: live update, else no value cell (empty), else the cell.
RowSlotValue(p, slot) ==
    LET k == RowKeys(p)[slot + 1]
    IN  IF WT_ROW_UPDATE(p, slot) # "none" THEN UpdVal(k)
        ELSE IF ~btree.kstate[k].cell THEN EmptyVal
        ELSE CellVal(k)

\* Lines 262-298: skip a deleted slot, else return the slot's key and value.
PrevRowSlot ==
    /\ pc = "row_slot"
    /\ IF WT_ROW_UPDATE(cbt.page, cbt.slot) = "del"
       THEN /\ pc' = "row_top"
            /\ UNCHANGED <<btree, cbt, cursor, lv, ret, call, out, wlog, hazard>>
       ELSE LET k == RowKeys(cbt.page)[cbt.slot + 1]
                v == RowSlotValue(cbt.page, cbt.slot)
            IN  /\ Return("OK", [cursor EXCEPT !.key = k, !.value = v],
                          [key |-> k, value |-> v, src |-> "slot", at |-> cbt.slot])
                /\ UNCHANGED <<btree, cbt>>

(***************************************************************************)
(* Column-store data model.                                                *)
(*                                                                         *)
(* A fixed-length leaf: starting record number, entries, one bit-field     *)
(* value per entry, and one insert list for the whole page.  A variable-   *)
(* length leaf: starting record number and an array of cells, each a value *)
(* or a deletion with a run length, or no cell at all; each cell has its   *)
(* own insert list.  btree.ins[o] is the WT_UPDATE state of the insert     *)
(* node for the record at offset o from the page's starting record number, *)
(* "none" if there is no node.  Record numbers are uint64_t; the model     *)
(* keeps RecnoBits bits of them.                                           *)
(***************************************************************************)
RecnoBits == 4

MaxColEntries == 3   \* entries of a fixed-length column leaf
MaxCells == 2        \* cells of a variable-length column leaf
MaxRle == 2          \* run length of a variable-length cell
MaxBase == 2         \* starting record number of a column leaf

RecnoMod == 2 ^ RecnoBits

RecnoAdd(r, n) == (r + n) % RecnoMod

RecnoSub(r, n) == (r + RecnoMod - (n % RecnoMod)) % RecnoMod

UpdStates == {"none", "live", "del"}

FixPages ==
    UNION { [type : {"fix"}, recno : 1..MaxBase, entries : {n},
             bits : [0..(n - 1) -> {0, 1}],
             ins : [0..(n - 1) -> UpdStates]] : n \in 0..MaxColEntries }

CellKinds ==
    { [kind |-> k, rle |-> r] : k \in {"val", "del"}, r \in 1..MaxRle }
        \cup {[kind |-> "null", rle |-> 1]}

RECURSIVE SumRle(_, _)
SumRle(cells, n) == IF n = 0 THEN 0 ELSE cells[n].rle + SumRle(cells, n - 1)

\* No insert node, or a single one: a live update or a deletion of one record.
VarInserts(cells) ==
    LET total == SumRle(cells, Len(cells))
        none == [o \in 0..(total - 1) |-> "none"]
    IN  {none} \cup
        { [none EXCEPT ![o] = u] : o \in 0..(total - 1), u \in {"live", "del"} }

VarPages ==
    UNION { { [type |-> "var", recno |-> b, cells |-> cs, ins |-> f] :
                b \in 1..MaxBase, f \in VarInserts(cs) } :
            cs \in UNION { [1..n -> CellKinds] : n \in 0..MaxCells } }

\* page->entries of the column leaf.
ColEntries == IF btree.type = "fix" THEN btree.entries ELSE Len(btree.cells)

\* The offsets (from the page's starting record number) that cell cip
\* (0-based) covers in the data model.
CellOffsets(cip) ==
    LET lo == SumRle(btree.cells, cip)
    IN  lo..(lo + btree.cells[cip + 1].rle - 1)

\* WT_COL_INSERT_SINGLE / WT_COL_INSERT(page, cip): the list head, NULL when
\* the list has no node; a head is named by its cell index (0 for a fixed page).
WT_COL_INSERT_SINGLE ==
    IF \A o \in DOMAIN btree.ins : btree.ins[o] = "none" THEN NULL ELSE 0

WT_COL_INSERT(cip) ==
    IF \A o \in CellOffsets(cip) : btree.ins[o] = "none" THEN NULL ELSE cip

\* WT_INSERT_RECNO of the nodes of a list.
ColInsRecnos(head) ==
    LET offs == IF btree.type = "fix" THEN DOMAIN btree.ins ELSE CellOffsets(head)
    IN  {RecnoAdd(btree.recno, o) : o \in {x \in offs : btree.ins[x] # "none"}}

\* __bit_getv_recno: the bit-field value stored for a record number.
BitGetvRecno(recno) == btree.bits[RecnoSub(recno, btree.recno)]

\* What a read through cbt->ins yields.  Nothing in these files points
\* cbt->ins at a column-store node: it is NULL after the cursor is cleared,
\* and the read is then undefined: the build faults, or finds bytes that
\* look like no match, a deletion, or a live update.
DerefOutcomes == {"crash", "none", "del", "live"}

(***************************************************************************)
(* __prev_fix (lines 14-74).                                               *)
(***************************************************************************)
\* Lines 50-62: the list scan for cbt->recno.  The loop variable is ins but
\* the update is read through cbt->ins.
FixListState(c, ub) ==
    IF c.ins_head = NULL \/ c.recno \notin ColInsRecnos(c.ins_head) THEN "none"
    ELSE IF c.ins = NULL THEN (IF ub = "none" THEN "live" ELSE ub)
    ELSE btree.ins[RecnoSub(c.ins, btree.recno)]

\* Lines 37-71: the loop; the for-increment also runs after a record is found.
RECURSIVE PrevFixLoop(_, _)
PrevFixLoop(c, ub) ==
    IF c.nslots = 0 THEN [ret |-> "WT_NOTFOUND", cbt |-> c, recno |-> 0, value |-> 0]
    ELSE LET st == FixListState(c, ub)
             nc == [c EXCEPT !.recno = RecnoSub(@, 1), !.nslots = @ - 1]
         IN  IF st = "crash"
             THEN [ret |-> "CRASH", cbt |-> c, recno |-> c.recno, value |-> 0]
             ELSE IF st = "del" THEN PrevFixLoop(nc, ub)
             ELSE IF st = "live"
             THEN [ret |-> "OK", cbt |-> nc, recno |-> c.recno,
                   value |-> IF c.ins = NULL THEN NULL ELSE UpdVal(c.recno)]
             ELSE [ret |-> "OK",
                   cbt |-> [nc EXCEPT !.value = BitGetvRecno(c.recno)],
                   recno |-> c.recno, value |-> BitGetvRecno(c.recno)]

\* Lines 29-34: new page initialisation.
PrevFixInit(c, newpage) ==
    IF newpage
    THEN [c EXCEPT !.ins_head = WT_COL_INSERT_SINGLE,
                   !.nslots = ColEntries,
                   !.recno = RecnoSub(RecnoAdd(btree.recno, ColEntries), 1)]
    ELSE c

\* The result of a page iterator goes back to __wt_btcur_prev (lines 358-374).
ColReturn(r) ==
    /\ cbt' = r.cbt
    /\ IF r.ret = "WT_NOTFOUND"
       THEN /\ pc' = "np"
            /\ UNCHANGED <<cursor, lv, ret, call, out, wlog, hazard>>
       ELSE IF r.ret = "CRASH"
       THEN /\ ret' = "CRASH"
            /\ pc' = "idle"
            /\ UNCHANGED <<cursor, lv, call, out, wlog, hazard>>
       ELSE Return("OK", [cursor EXCEPT !.recno = r.recno, !.value = r.value],
                   [key |-> r.recno, value |-> r.value, src |-> "col", at |-> r.cbt.cip])
    /\ UNCHANGED btree

\* Lines 344-347: one call of __prev_fix.
PrevFix ==
    /\ pc = "loop"
    /\ cbt.page # NULL
    /\ PageType(cbt.page) = "col_fix"
    /\ \E ub \in DerefOutcomes :
        ColReturn(PrevFixLoop(PrevFixInit(cbt, lv.newpage), ub))

(***************************************************************************)
(* __prev_var (lines 80-179).                                              *)
(***************************************************************************)
\* The value __wt_cell_unpack_copy leaves in cbt->value for a cell.
VarCellValue(cip) ==
    IF btree.cells[cip + 1].kind = "val" THEN CellVal(cip) ELSE EmptyVal

\* Lines 153-168: the list scan for one record.  The comparison and the
\* update are read through cbt->ins, and cbt->recno is already decremented.
VarListState(c, ub) ==
    IF c.ins_head = NULL THEN "none"
    ELSE IF c.ins = NULL THEN ub
    ELSE IF c.recno # c.ins THEN "none"
    ELSE btree.ins[RecnoSub(c.ins, btree.recno)]

\* Lines 144-176: return the cell's value rle_return_cnt times.  state is
\* reset once per cell (line 143), not once per record.
RECURSIVE PrevVarRun(_, _, _)
PrevVarRun(c, state, ub) ==
    IF c.rle_return_cnt = 0 THEN [ret |-> "more", cbt |-> c, recno |-> 0, value |-> 0]
    ELSE LET recno == c.recno
             c1 == [c EXCEPT !.rle_return_cnt = @ - 1, !.recno = RecnoSub(@, 1)]
             ls == VarListState(c1, ub)
             st == IF ls = "crash" THEN "crash"
                   ELSE IF ls = "del" THEN "DELETED"
                   ELSE IF ls = "live" THEN "FOUND"
                   ELSE IF state = "NOTFOUND" THEN "FOUND" ELSE state
             v == IF ls = "live"
                  THEN (IF c1.ins = NULL THEN NULL ELSE UpdVal(c1.ins))
                  ELSE c1.value
         IN  IF st = "crash"
             THEN [ret |-> "CRASH", cbt |-> c1, recno |-> recno, value |-> 0]
             ELSE IF st = "FOUND"
             THEN [ret |-> "OK", cbt |-> c1, recno |-> recno, value |-> v]
             ELSE PrevVarRun(c1, st, ub)

\* Mutant: the run length of the cell is ignored.
VarCellRleOne(cip) == 1

\* Lines 111-115: the cell's run length, 1 when the slot has no cell.
VarCellRle(cip) ==
    IF btree.cells[cip + 1].kind = "null" THEN 1 ELSE btree.cells[cip + 1].rle

\* Lines 107-178: the loop over cells.  unpack is what the last
\* __wt_cell_unpack of this call left in the local _unpack ("uninit" if none
\* has run yet); reading its type then is undefined and yields either answer.
RECURSIVE PrevVarLoop(_, _, _, _, _)
PrevVarLoop(c, newcell, unpack, ub, uninitDel) ==
    IF ~(c.rle_return_cnt > 0 \/ c.nslots > 0)
    THEN [ret |-> "WT_NOTFOUND", cbt |-> c, recno |-> 0, value |-> 0]
    ELSE LET cell == btree.cells[c.cip + 1]
             unpack1 == IF newcell /\ cell.kind # "null" THEN cell.kind ELSE unpack
             head == WT_COL_INSERT(c.cip)
             isDel == IF unpack1 = "uninit" THEN uninitDel ELSE unpack1 = "del"
             c1 == IF newcell
                   THEN [c EXCEPT !.rle_return_cnt = VarCellRle(c.cip), !.ins_head = head]
                   ELSE c
             next(cc) == [cc EXCEPT !.cip = @ - 1, !.nslots = @ - 1]
         IN  IF newcell /\ head = NULL /\ isDel
             THEN PrevVarLoop(
                      next([c1 EXCEPT !.recno = RecnoSub(@, c1.rle_return_cnt),
                                      !.rle_return_cnt = 0]),
                      TRUE, unpack1, ub, uninitDel)
             ELSE LET c2 == IF newcell
                            THEN [c1 EXCEPT !.value = VarCellValue(c.cip)]
                            ELSE c1
                      r == PrevVarRun(c2, "NOTFOUND", ub)
                  IN  IF r.ret = "more"
                      THEN PrevVarLoop(next(r.cbt), TRUE, unpack1, ub, uninitDel)
                      ELSE r

\* Lines 97-104: new page initialisation.
PrevVarInit(c, newpage) ==
    IF newpage
    THEN [c EXCEPT !.cip = ColEntries - 1,
                   !.nslots = ColEntries,
                   !.recno = RecnoSub(RecnoAdd(btree.recno, ColEntries), 1)]
    ELSE c

\* Lines 348-351: one call of __prev_var.
PrevVar ==
    /\ pc = "loop"
    /\ cbt.page # NULL
    /\ PageType(cbt.page) = "col_var"
    /\ \E ub \in DerefOutcomes, uninitDel \in BOOLEAN :
        ColReturn(PrevVarLoop(PrevVarInit(cbt, lv.newpage), lv.newpage,
                              "uninit", ub, uninitDel))

(***************************************************************************)
(* Row search.                                                             *)
(***************************************************************************)
\* btree->btree_compare: the comparator, a total order on keys.
Compare(a, b) == IF a < b THEN 0 - 1 ELSE IF a = b THEN 0 ELSE 1

\* __search_reset (lines 14-27): only the search fields are reset.
SearchReset(c) ==
    [c EXCEPT !.page = NULL, !.cip = NULL, !.rip = NULL, !.slot = NULL,
              !.ins_head = NULL, !.ins = NULL, !.match = 0, !.write_gen = 0]

\* The level-i forward link of owner o on list head of page p: o is a node
\* (its key), or 0 for the list head's own array.
SkipLink(p, head, o, i) ==
    LET after == {k \in InsKeys(p, head) : btree.kstate[k].depth > i /\ k > o}
    IN  IF after = {} THEN NULL ELSE SetMin(after)

\* Mutant: a greater key drops a level instead of moving along the level.
RECURSIVE SearchInsertLoopNoAdvance(_, _, _, _, _, _)
SearchInsertLoopNoAdvance(p, head, key, i, o, stack) ==
    IF i < 0 THEN [ins |-> NULL, stack |-> stack]
    ELSE LET n == SkipLink(p, head, o, i)
             cmp == IF n = NULL THEN 0 - 1 ELSE Compare(key, n)
         IN  IF cmp = 0 THEN [ins |-> n, stack |-> stack]
             ELSE SearchInsertLoopNoAdvance(p, head, key, i - 1, o,
                                            [stack EXCEPT ![i] = o])

\* Mutant: on dropping a level the next node is recorded, not the position
\* before it.
RECURSIVE SearchInsertLoopStackNext(_, _, _, _, _, _)
SearchInsertLoopStackNext(p, head, key, i, o, stack) ==
    IF i < 0 THEN [ins |-> NULL, stack |-> stack]
    ELSE LET n == SkipLink(p, head, o, i)
             cmp == IF n = NULL THEN 0 - 1 ELSE Compare(key, n)
         IN  IF cmp = 0 THEN [ins |-> n, stack |-> stack]
             ELSE IF cmp > 0 THEN SearchInsertLoopStackNext(p, head, key, i, n, stack)
             ELSE SearchInsertLoopStackNext(p, head, key, i - 1, o,
                                            [stack EXCEPT ![i] = n])

\* __search_insert, the loop of lines 53-67: ins is &o->next[i] (or
\* &inshead->head[i] when o = 0).
RECURSIVE SearchInsertLoop(_, _, _, _, _, _)
SearchInsertLoop(p, head, key, i, o, stack) ==
    IF i < 0 THEN [ins |-> NULL, stack |-> stack]
    ELSE LET n == SkipLink(p, head, o, i)
             cmp == IF n = NULL THEN 0 - 1 ELSE Compare(key, n)
         IN  IF cmp = 0 THEN [ins |-> n, stack |-> stack]
             ELSE IF cmp > 0 THEN SearchInsertLoop(p, head, key, i, n, stack)
             ELSE SearchInsertLoop(p, head, key, i - 1, o,
                                   [stack EXCEPT ![i] = o])

\* __search_insert (lines 33-70).
SearchInsert(p, head, key, stack) ==
    IF head = NULL THEN [ins |-> NULL, stack |-> stack]
    ELSE SearchInsertLoop(p, head, key, WT_SKIP_MAXDEPTH - 1, 0, stack)

\* Lines 103-128: binary search of the root internal page.  Entry indx > 0
\* carries routing key btree.route[indx]; entry 0 is never compared.
RECURSIVE IntSearchLoop(_, _, _, _, _)
IntSearchLoop(key, base, limit, cmp, rref) ==
    IF limit = 0 THEN [base |-> base, cmp |-> cmp, rref |-> rref]
    ELSE LET indx == base + (limit \div 2)
             c == IF indx # 0 THEN Compare(key, btree.route[indx]) ELSE cmp
         IN  IF indx # 0 /\ c = 0
             THEN [base |-> base, cmp |-> c, rref |-> indx]
             ELSE IF indx # 0 /\ c < 0
             THEN IntSearchLoop(key, base, limit \div 2, c, indx)
             ELSE IntSearchLoop(key, indx + 1, (limit - 1) \div 2, c, indx)

\* Mutant: the entry visited last is taken, whatever the comparison said.
IntPageSearchLastVisited(key, cmp0) ==
    LET r == IntSearchLoop(key, 0, NumLeaves, cmp0, NULL)
    IN  [rref |-> r.rref, cmp |-> r.cmp]

\* Lines 103-140: the search of one internal page, entered with cmp0 in cmp:
\* the entry before base unless the loop ended on an equal key.
IntPageSearch(key, cmp0) ==
    LET r == IntSearchLoop(key, 0, NumLeaves, cmp0, NULL)
    IN  [rref |-> IF r.cmp # 0 THEN r.base - 1 ELSE r.rref, cmp |-> r.cmp]

\* Lines 101-146: descend from the root to a leaf; cmp starts at -1 (line 97).
RowDescend(key) ==
    IF NumLeaves = 1 THEN [page |-> 1, cmp |-> 0 - 1]
    ELSE LET r == IntPageSearch(key, 0 - 1)
         IN  [page |-> r.rref + 1, cmp |-> r.cmp]

\* Mutant: after a greater key the search restarts at indx, not indx + 1.
RECURSIVE LeafSearchLoopBaseAtIndx(_, _, _, _, _, _)
LeafSearchLoopBaseAtIndx(p, key, base, limit, cmp, rip) ==
    IF limit = 0 THEN [base |-> base, cmp |-> cmp, rip |-> rip]
    ELSE LET indx == base + (limit \div 2)
             c == Compare(key, RowKeys(p)[indx + 1])
         IN  IF c = 0 THEN [base |-> base, cmp |-> c, rip |-> indx]
             ELSE IF c < 0
             THEN LeafSearchLoopBaseAtIndx(p, key, base, limit \div 2, c, indx)
             ELSE LeafSearchLoopBaseAtIndx(p, key, indx, (limit - 1) \div 2, c, indx)

\* Lines 160-184: binary search of the leaf's WT_ROW array.
RECURSIVE LeafSearchLoop(_, _, _, _, _, _)
LeafSearchLoop(p, key, base, limit, cmp, rip) ==
    IF limit = 0 THEN [base |-> base, cmp |-> cmp, rip |-> rip]
    ELSE LET indx == base + (limit \div 2)
             c == Compare(key, RowKeys(p)[indx + 1])
         IN  IF c = 0 THEN [base |-> base, cmp |-> c, rip |-> indx]
             ELSE IF c < 0
             THEN LeafSearchLoop(p, key, base, limit \div 2, c, indx)
             ELSE LeafSearchLoop(p, key, indx + 1, (limit - 1) \div 2, c, indx)

\* page->write_gen of a leaf.
PageWriteGen(p) == btree.write_gen

\* Mutant: a node whose update is a deletion is reported as no match.
SearchMatchLiveOnly(ins) ==
    IF ins = NULL \/ btree.kstate[ins].upd = "del" THEN 0 ELSE 1

\* Line 243: the insert-list search matched iff it returned a node.
SearchMatch(ins) == IF ins = NULL THEN 0 ELSE 1

\* __wt_row_search (lines 76-244): the cursor after a successful search.
RowSearchResult(c0, key, is_modify) ==
    LET c == SearchReset(c0)
        d == RowDescend(key)
        page == d.page
        c1 == [c EXCEPT !.write_gen = IF is_modify THEN PageWriteGen(page) ELSE @,
                        !.page = page]
        l == LeafSearchLoop(page, key, 0, Entries(page), d.cmp, NULL)
    IN  IF l.cmp = 0
        THEN [c1 EXCEPT !.rip = l.rip, !.slot = l.rip, !.match = 1]
        ELSE LET rip == IF l.base # 0 THEN l.base - 1 ELSE 0
                 head == IF l.base = 0 THEN WT_ROW_INSERT_SMALLEST(page)
                         ELSE WT_ROW_INSERT_SLOT(page, rip)
                 slot == IF l.base = 0 THEN Entries(page) ELSE rip
                 f == SearchInsert(page, head, key, c1.ins_stack)
             IN  [c1 EXCEPT !.rip = rip, !.ins_head = head, !.slot = slot,
                            !.ins = f.ins, !.ins_stack = f.stack,
                            !.match = SearchMatch(f.ins)]

\* A call of __wt_row_search with the key in the cursor, every collaborator
\* succeeding: the reached leaf is the page left held.
RowSearch(key, is_modify) ==
    /\ pc = "idle"
    /\ ret # "CRASH"
    /\ btree.type = "row"
    /\ cbt' = RowSearchResult(cbt, key, is_modify)
    /\ cursor' = [cursor EXCEPT !.key = key]
    /\ call' = [op |-> "search", key |-> key, modify |-> is_modify, cmp |-> 0 - 1]
    /\ ret' = "OK"
    /\ hazard' = {RowDescend(key).page}
    /\ UNCHANGED <<btree, pc, lv, out, wlog>>

(***************************************************************************)
(* Initial states and specifications.                                      *)
(*                                                                         *)
(* A row tree is any assignment of key states with at most MaxLeaves       *)
(* leaves.  Only a root leaf can be empty; under an internal page every    *)
(* leaf has at least one slot.                                             *)
(***************************************************************************)
Routes ==
    UNION { { r \in [1..n -> 2..MaxKey] : \A i \in 1..(n - 1) : r[i] < r[i + 1] } :
            n \in 0..(MaxLeaves - 1) }

RowTreesOver(KS) ==
    { t \in [type : {"row"}, kstate : [Keys -> KS], route : Routes,
              write_gen : {1}] :
        \A p \in 1..(Len(t.route) + 1) :
            Len(t.route) = 0 \/
            \E k \in Keys :
                /\ t.kstate[k].loc = "slot"
                /\ (p = 1 \/ k >= t.route[p - 1])
                /\ (p = Len(t.route) + 1 \/ k < t.route[p]) }

\* Backward iteration reads level 0 of a skip list only.
PrevKStates == {s \in KStates : s.depth <= 1}

\* Search never reads a value cell.
SearchKStates == {s \in KStates : s.loc = "slot" => s.cell}

InitCursor ==
    /\ cbt = CbtClear
    /\ cursor = CursorClear
    /\ pc = "idle"
    /\ lv = LvClear
    /\ ret = "NONE"
    /\ call = CallNone
    /\ out = <<>>
    /\ wlog = {}
    /\ hazard = {}

\* Backward iteration over a row tree.
Init ==
    /\ btree \in RowTreesOver(PrevKStates)
    /\ InitCursor

Next ==
    \/ BtcurLast
    \/ BtcurPrev
    \/ PrevLoopRow
    \/ PrevLoopNoPage
    \/ PrevWalkPage
    \/ PrevRowNewPage
    \/ PrevRowNewCount
    \/ PrevRowInsert
    \/ PrevRowWalk
    \/ PrevRowSlotStep
    \/ PrevRowCount
    \/ PrevRowSlot

Spec == Init /\ [][Next]_vars

\* Backward iteration over a column leaf.
InitCol ==
    /\ btree \in FixPages \cup VarPages
    /\ InitCursor

NextCol ==
    \/ BtcurLast
    \/ BtcurPrev
    \/ PrevLoopNoPage
    \/ PrevWalkPage
    \/ PrevFix
    \/ PrevVar

SpecCol == InitCol /\ [][NextCol]_vars

(***************************************************************************)
(* The write path, as far as a reader can see it: a new WT_INSERT node,    *)
(* fully built, is linked into the insert list its key belongs to in one   *)
(* atomic publish; existing nodes and links never change.  Every change    *)
(* of a page raises the page's write generation.                           *)
(***************************************************************************)
MaxWrites == 2       \* nodes a writer publishes during one scan

WriterInsert(k, u) ==
    /\ btree.type = "row"
    /\ btree.kstate[k].loc = "none"
    /\ Cardinality(wlog) < MaxWrites
    /\ btree' = [btree EXCEPT !.kstate[k] =
                    [loc |-> "ins", upd |-> u, cell |-> FALSE, depth |-> 1],
                              !.write_gen = @ + 1]
    /\ wlog' = wlog \cup {k}
    /\ UNCHANGED <<cbt, cursor, pc, lv, ret, call, out, hazard>>

\* Backward iteration over a row tree while a writer publishes nodes.
InitConc ==
    /\ btree \in RowTreesOver(PrevKStates)
    /\ InitCursor

NextConc ==
    \/ Next
    \/ \E k \in Keys, u \in {"live", "del"} : WriterInsert(k, u)

SpecConc == InitConc /\ [][NextConc]_vars

\* Searches of a row tree.
InitSearch ==
    /\ btree \in RowTreesOver(SearchKStates)
    /\ InitCursor

NextSearch == \E key \in Keys, is_modify \in BOOLEAN : RowSearch(key, is_modify)

SpecSearch == InitSearch /\ [][NextSearch]_vars

(***************************************************************************)
(* Properties.                                                             *)
(***************************************************************************)
RECURSIVE Reverse(_)
Reverse(s) == IF s = <<>> THEN <<>> ELSE Append(Reverse(Tail(s)), Head(s))

IsPrefix(s, t) == Len(s) <= Len(t) /\ \A i \in 1..Len(s) : s[i] = t[i]

OutKeys == [i \in 1..Len(out) |-> out[i].key]

\* A backward scan (last, then prev) is between calls.
ScanIdle == pc = "idle" /\ call.op = "prev" /\ ret # "NONE"

\* The records a backward scan of a row tree must return: slots whose update
\* is not a deletion, and insert nodes whose update is not a deletion.
Visible(k) == btree.kstate[k].loc # "none" /\ btree.kstate[k].upd # "del"

VisibleDescending == Reverse(AscSeq({k \in Keys : Visible(k)}))

\* C1: from the end of a row tree, last() and repeated prev() return the
\* visible records, each once, in strictly decreasing key order, and then
\* not-found: what has been returned so far is the start of the descending
\* visible sequence, and all of it once not-found is returned.
C1_BackwardScanReturnsVisibleSet ==
    ScanIdle =>
        /\ ret \in {"OK", "WT_NOTFOUND"}
        /\ IsPrefix(OutKeys, VisibleDescending)
        /\ (ret = "WT_NOTFOUND" => OutKeys = VisibleDescending)

\* C4: a record returned from a WT_ROW slot carries the slot's live update if
\* it has one, else its on-page value cell, else (no cell) the empty value;
\* a slot whose update is a deletion is never returned.
C4_SlotValueSelection ==
    \A i \in 1..Len(out) :
        out[i].src = "slot" =>
            LET ks == btree.kstate[out[i].key]
            IN  /\ ks.loc = "slot"
                /\ ks.upd # "del"
                /\ out[i].value = (IF ks.upd = "live" THEN 200 + out[i].key
                                   ELSE IF ks.cell THEN 100 + out[i].key
                                   ELSE 0)

\* C4 witness: a slot with both a value cell and a live update was returned,
\* and so was a slot with no update and no cell.
C4_Witness ==
    /\ \E i \in 1..Len(out) :
        /\ out[i].src = "slot"
        /\ btree.kstate[out[i].key].upd = "live"
        /\ btree.kstate[out[i].key].cell
    /\ \E i \in 1..Len(out) :
        /\ out[i].src = "slot"
        /\ btree.kstate[out[i].key].upd = "none"
        /\ ~btree.kstate[out[i].key].cell
    /\ \E k \in Keys : btree.kstate[k].loc = "slot" /\ btree.kstate[k].upd = "del"
    /\ ScanIdle /\ ret = "WT_NOTFOUND"

\* The records returned before the call that has just completed.
OutBefore == IF ret = "OK" THEN SubSeq(out, 1, Len(out) - 1) ELSE out

\* C8: a prev() made when no visible record precedes the cursor (an empty
\* tree, or every visible record already returned) returns not-found.
C8_NotFoundWhenNothingPrecedes ==
    (ScanIdle /\ {k \in Keys : Visible(k)} \subseteq
                    {OutBefore[i].key : i \in 1..Len(OutBefore)})
        => ret = "WT_NOTFOUND"

\* A call of __wt_row_search has returned success.
SearchDone == pc = "idle" /\ call.op = "search" /\ ret = "OK"

\* The number of slot keys of leaf p that compare less than key.
SlotsBelow(p, key) == Cardinality({i \in 1..Entries(p) : RowKeys(p)[i] < key})

\* The insert array index whose list a key that is on no slot belongs to.
AnchorList(p, key) ==
    IF SlotsBelow(p, key) = 0 THEN Entries(p) ELSE SlotsBelow(p, key) - 1

\* C2: searching a key that is nowhere in the tree returns match = 0 and an
\* anchor: slot keys up to the anchor slot are <= the key and those after
\* it are greater, with that slot's insert list; when every slot key is
\* greater, the slot is page->entries with the list that precedes slot 0.
C2_AbsentKeyAnchor ==
    (SearchDone /\ btree.kstate[call.key].loc = "none") =>
        LET p == cbt.page
            rk == RowKeys(p)
            n == Len(rk)
        IN  /\ cbt.match = 0
            /\ cbt.ins = NULL
            /\ IF \A i \in 1..n : rk[i] > call.key
               THEN cbt.slot = n
               ELSE /\ cbt.slot \in 0..(n - 1)
                    /\ \A i \in 1..n :
                        IF i <= cbt.slot + 1 THEN rk[i] <= call.key
                        ELSE rk[i] > call.key
            /\ cbt.ins_head \in {NULL, cbt.slot}
            /\ (cbt.ins_head = NULL <=> InsKeys(p, cbt.slot) = {})

\* C2 witness: an absent key anchored at a slot of a leaf under the root
\* internal page, with slot keys of that leaf on both sides of it.
C2_Witness ==
    /\ SearchDone
    /\ btree.kstate[call.key].loc = "none"
    /\ cbt.match = 0
    /\ cbt.slot >= 0 /\ cbt.slot + 1 < Entries(cbt.page)

\* C3: match = 1 iff the key is a slot key of the reached leaf or the key of
\* a node on the anchor insert list.  A slot match returns that slot with
\* ins_head and ins unset; otherwise the anchor list alone is searched and a
\* match there returns that node.
C3_MatchIffSlotOrAnchorList ==
    SearchDone =>
        LET p == cbt.page
            rk == RowKeys(p)
            onSlot == \E i \in 1..Len(rk) : rk[i] = call.key
            list == AnchorList(p, call.key)
            onList == call.key \in InsKeys(p, list)
        IN  /\ cbt.match = (IF onSlot \/ onList THEN 1 ELSE 0)
            /\ onSlot => /\ cbt.slot \in 0..(Len(rk) - 1)
                         /\ rk[cbt.slot + 1] = call.key
                         /\ cbt.ins_head = NULL
                         /\ cbt.ins = NULL
            /\ ~onSlot => /\ cbt.slot = list
                          /\ cbt.ins_head \in {NULL, list}
                          /\ cbt.ins = (IF onList THEN call.key ELSE NULL)

\* C3 witness: a match found on an insert list behind a smaller node.
C3_Witness ==
    /\ SearchDone
    /\ cbt.match = 1
    /\ cbt.ins = call.key
    /\ \E k \in InsKeys(cbt.page, cbt.ins_head) : k < call.key
    /\ Entries(cbt.page) > 0

\* C9 as claimed: a search whose matching entry is a deletion marker does
\* not report a match.
C9_SearchSkipsDeleted ==
    (SearchDone /\ btree.kstate[call.key].upd = "del") => cbt.match = 0

\* C9 as amended: __wt_row_search does not look at deletion markers.  A key
\* whose slot update or insert node update is a deletion is reported with
\* match = 1, positioned on that slot or that node.
C9_SearchReportsDeletedEntry ==
    (SearchDone /\ btree.kstate[call.key].upd = "del") =>
        /\ cbt.match = 1
        /\ btree.kstate[call.key].loc = "slot" =>
               RowKeys(cbt.page)[cbt.slot + 1] = call.key
        /\ btree.kstate[call.key].loc = "ins" => cbt.ins = call.key

\* C9 witness: the search matched an insert node marked deleted.
C9_Witness ==
    /\ SearchDone
    /\ btree.kstate[call.key].loc = "ins"
    /\ btree.kstate[call.key].upd = "del"
    /\ cbt.match = 1

OutRecs == [i \in 1..Len(out) |-> [key |-> out[i].key, value |-> out[i].value]]

\* The records of a fixed-length leaf from offset o down to the first one:
\* a deleted record is left out, a live update gives the update's value,
\* any other record its bit-field value.
RECURSIVE FixExpected(_)
FixExpected(o) ==
    IF o < 0 THEN <<>>
    ELSE (IF btree.ins[o] = "del" THEN <<>>
          ELSE <<[key |-> RecnoAdd(btree.recno, o),
                  value |-> IF btree.ins[o] = "live"
                            THEN 200 + RecnoAdd(btree.recno, o)
                            ELSE btree.bits[o]]>>)
         \o FixExpected(o - 1)

\* C5: on a fixed-length leaf with starting record number B and N entries,
\* prev() from the end returns B+N-1 down to B, leaving out exactly the
\* records whose insert node is a deletion, with the update's value where
\* there is a live update and the bit-field value elsewhere, then not-found.
C5_FixScanOmitsDeleted ==
    (btree.type = "fix" /\ ScanIdle) =>
        /\ ret \in {"OK", "WT_NOTFOUND"}
        /\ IsPrefix(OutRecs, FixExpected(btree.entries - 1))
        /\ (ret = "WT_NOTFOUND" => OutRecs = FixExpected(btree.entries - 1))

\* The positions in out of the records returned from cell j.
FromCell(j) == {i \in 1..Len(out) : out[i].at = j}

\* Cell j holds a value and its insert list is empty.
PlainValueCell(j) ==
    /\ btree.cells[j + 1].kind = "val"
    /\ \A o \in CellOffsets(j) : btree.ins[o] = "none"

C7_VarRecnoFromRunLengths ==
    btree.type = "var" =>
        \A i \in 1..Len(out) :
            out[i].key \in {RecnoAdd(btree.recno, o) : o \in CellOffsets(out[i].at)}

\* C10: while a writer publishes nodes into the leaf's insert lists, the
\* keys a reader's successive prev() calls return are strictly decreasing,
\* so none is returned twice.
C10_DecreasingUnderInserts ==
    /\ ret # "CRASH"
    /\ \A i \in 1..(Len(out) - 1) : out[i].key > out[i + 1].key

\* The same on trees whose leaves all have at least one WT_ROW slot, where
\* the new page configuration of __prev_row stays inside the page's arrays.
DecreasingUnderInsertsOnSlottedLeaves ==
    (\E k \in Keys : btree.kstate[k].loc = "slot") => C10_DecreasingUnderInserts

\* C10 witness: a scan that returned a node published while it was under
\* way, went on to return further records, and ended with not-found.
C10_Witness ==
    /\ ScanIdle /\ ret = "WT_NOTFOUND"
    /\ \E i \in 1..(Len(out) - 1) : out[i].key \in wlog /\ out[i].src = "ins"
    /\ Cardinality(wlog) = 2

(***************************************************************************)
(* Every operation on every layout, with the running call always taking    *)
(* its next step (a call is straight-line code of one thread).             *)
(***************************************************************************)
InitAll ==
    /\ btree \in RowTreesOver(PrevKStates) \cup FixPages \cup VarPages
    /\ InitCursor

NextAll ==
    \/ Next
    \/ PrevFix
    \/ PrevVar
    \/ NextSearch

SpecAll == InitAll /\ [][NextAll]_vars /\ WF_vars(NextAll)

\* A call in progress reaches its return (whatever it returns).
CallsReachReturn == (pc # "idle") ~> (pc = "idle")

\* C11: every call of search, prev() and last() on a finite tree ends with a
\* definitive result (a record or position, not-found, or an error code):
\* no call faults and every call in progress returns.
C11_CallsEndWithResult ==
    /\ [](ret \in {"NONE", "OK", "WT_NOTFOUND"})
    /\ CallsReachReturn

\* The values of the records returned from cell j, in the order returned.
RECURSIVE ValuesFromCell(_, _)
ValuesFromCell(j, i) ==
    IF i > Len(out) THEN <<>>
    ELSE (IF out[i].at = j THEN <<out[i].value>> ELSE <<>>) \o ValuesFromCell(j, i + 1)

\* The values the run of value cell j must give, from offset hi down to lo:
\* a record whose insert node is a deletion is left out, a live update
\* gives the update's value, any other record the cell's value.
RECURSIVE RunExpected(_, _, _)
RunExpected(j, lo, hi) ==
    IF hi < lo THEN <<>>
    ELSE (IF btree.ins[hi] = "del" THEN <<>>
          ELSE IF btree.ins[hi] = "live" THEN <<200 + RecnoAdd(btree.recno, hi)>>
          ELSE <<100 + j>>)
         \o RunExpected(j, lo, hi - 1)

\* C12: on a value cell that has an insert list, each record of the run is
\* looked up in the list: a live update replaces the cell's value for that
\* record, a deletion leaves out that record alone, and the other records
\* of the run are returned with the cell's value.
C12_RunOverridesPerRecord ==
    btree.type = "var" =>
        /\ ret # "CRASH"
        /\ \A j \in 0..(Len(btree.cells) - 1) :
            (/\ btree.cells[j + 1].kind = "val"
             /\ WT_COL_INSERT(j) # NULL
             /\ ScanIdle
             /\ (ret = "WT_NOTFOUND" \/ \E i \in 1..Len(out) : out[i].at < j))
                => ValuesFromCell(j, 1) =
                       RunExpected(j, SetMin(CellOffsets(j)), SetMax(CellOffsets(j)))

\* Searches of single-leaf row trees: every insert list the search meets
\* hangs off the root leaf.  __search_insert reads keys and links only, so
\* one update state per slot and per node is kept.
SkipKStates ==
    {s \in SearchKStates : s.upd = (IF s.loc = "ins" THEN "live" ELSE "none")}

InitSkip ==
    /\ btree \in {t \in RowTreesOver(SkipKStates) : Len(t.route) = 0}
    /\ InitCursor

SpecSkip == InitSkip /\ [][NextSearch]_vars

\* The owner of the level-i link a search for key stops at on list head of
\* page p: the last node of level i whose key is less, or 0 for the head.
StackOwner(p, head, key, i) ==
    LET below == {k \in InsKeys(p, head) : btree.kstate[k].depth > i /\ k < key}
    IN  IF below = {} THEN 0 ELSE SetMax(below)

\* C13: __search_insert returns the node with the search key if the list
\* has one, else none; when it returns none on a non-empty list, every
\* ins_stack[i] is the level-i link after the last level-i node below the
\* key (the head's link if there is none) and that link's target is absent
\* or greater; on an empty list it returns none and writes no stack entry.
C13_SearchInsertStack ==
    /\ [](SearchDone /\ call.key \notin {RowKeys(cbt.page)[i] : i \in 1..Entries(cbt.page)}
            => LET p == cbt.page
                   list == AnchorList(p, call.key)
               IN  /\ cbt.ins = (IF call.key \in InsKeys(p, list) THEN call.key ELSE NULL)
                   /\ (cbt.ins = NULL /\ InsKeys(p, list) # {}) =>
                          \A i \in 0..(WT_SKIP_MAXDEPTH - 1) :
                              /\ cbt.ins_stack[i] = StackOwner(p, list, call.key, i)
                              /\ LET t == SkipLink(p, list, cbt.ins_stack[i], i)
                                 IN  t = NULL \/ t > call.key)
    /\ [][(\E key \in Keys :
              /\ cbt'.page # NULL
              /\ call'.key = key
              /\ key \notin {RowKeys(cbt'.page)[i] : i \in 1..Entries(cbt'.page)}
              /\ InsKeys(cbt'.page, AnchorList(cbt'.page, key)) = {})
           => (cbt'.ins = NULL /\ cbt'.ins_stack = cbt.ins_stack)]_vars

\* C13 witness: a search that found no node on a two-level list, leaving a
\* node at level 0 of the stack and the list head above it.
C13_Witness ==
    /\ SearchDone
    /\ cbt.ins = NULL /\ cbt.ins_head # NULL
    /\ cbt.ins_stack[0] > 0
    /\ cbt.ins_stack[1] = 0
    /\ \E k \in InsKeys(cbt.page, cbt.ins_head) : btree.kstate[k].depth = 2

(***************************************************************************)
(* The search of one internal page on its own (lines 103-145), below an    *)
(* arbitrary page: the routing keys are btree.route, entry 0 has no        *)
(* compared key, and cmp holds whatever the page above left in it.         *)
(***************************************************************************)
MaxRouteKey == 5     \* routing keys are 2..MaxRouteKey
MaxIntEntries == 4   \* entries of the internal page, entry 0 included

IntRoutes ==
    UNION { { r \in [1..n -> 2..MaxRouteKey] : \A i \in 1..(n - 1) : r[i] < r[i + 1] } :
            n \in 0..(MaxIntEntries - 1) }

InitInt ==
    /\ btree \in [type : {"row"}, kstate : {[k \in Keys |-> Absent]},
                   route : IntRoutes, write_gen : {1}]
    /\ InitCursor

\* One iteration of the loop of line 101: the child the page search picks
\* becomes the page (line 145).
InternalSearch(key, cmp0) ==
    /\ pc = "idle"
    /\ cbt' = [SearchReset(cbt) EXCEPT !.page = IntPageSearch(key, cmp0).rref + 1]
    /\ cursor' = [cursor EXCEPT !.key = key]
    /\ call' = [op |-> "descend", key |-> key, modify |-> FALSE, cmp |-> cmp0]
    /\ ret' = "OK"
    /\ UNCHANGED <<btree, pc, lv, out, wlog, hazard>>

NextInt ==
    \E key \in 1..(MaxRouteKey + 1), cmp0 \in {0 - 1, 0, 1} : InternalSearch(key, cmp0)

SpecInt == InitInt /\ [][NextInt]_vars

\* C14: on an internal page the child chosen is the entry whose key equals
\* the search key, else the entry just before the smallest entry that is
\* greater (the last entry if none is), entry 0 counting as below every
\* key; a key below every routing key goes through entry 0; an entry is
\* always chosen, whatever cmp held on entry to the page.
C14_DescentPicksChild ==
    call.op = "descend" =>
        LET n == Len(btree.route)
            child == cbt.page - 1
            greater == {i \in 1..n : btree.route[i] > call.key}
        IN  /\ child \in 0..n
            /\ (\E i \in 1..n : btree.route[i] = call.key)
                   => btree.route[child] = call.key
            /\ (\A i \in 1..n : btree.route[i] # call.key)
                   => child = (IF greater = {} THEN n ELSE SetMin(greater) - 1)
            /\ (\A i \in 1..n : btree.route[i] > call.key) => child = 0

\* C14 witness: a page entered with cmp = 0 left over from the page above,
\* whose loop ends on entry 0 after a comparison, the key being smaller
\* than every routing key.
C14_Witness ==
    /\ call.op = "descend"
    /\ call.cmp = 0
    /\ Len(btree.route) = MaxIntEntries - 1
    /\ \A i \in 1..Len(btree.route) : btree.route[i] > call.key
    /\ cbt.page = 1

(***************************************************************************)
(* __wt_row_search step by step: the descent with its page-in and release  *)
(* of pages (lines 101-146), the capture of the leaf's write generation    *)
(* (lines 153-157), the reads of the leaf (lines 160-244) and the error    *)
(* exit (lines 246-247).  A collaborator that can fail fails with one of   *)
(* CollabErrors.  With a writer, wlog holds the keys published since the   *)
(* capture.                                                                *)
(***************************************************************************)
CollabErrors == {"EIO", "WT_RESTART"}

\* Lines 89-101: reset the cursor and start at the root page.
RowSearchBegin(key, is_modify) ==
    /\ pc = "idle"
    /\ btree.type = "row"
    /\ cbt' = SearchReset(cbt)
    /\ cursor' = [cursor EXCEPT !.key = key]
    /\ call' = [op |-> "search", key |-> key, modify |-> is_modify, cmp |-> 0 - 1]
    /\ ret' = "NONE"
    /\ lv' = [LvClear EXCEPT !.page = TreeRoot]
    /\ hazard' = {TreeRoot}
    /\ pc' = IF PageType(TreeRoot) = "row_int" THEN "srch_in" ELSE "srch_gen"
    /\ UNCHANGED <<btree, out, wlog>>

\* Lines 103-143: search the internal page and bring the child in; a
\* failure of __wt_page_in goes to err with the parent still in page.
SearchPageIn ==
    /\ pc = "srch_in"
    /\ \/ /\ hazard' = hazard \cup {RowDescend(call.key).page}
          /\ pc' = "srch_rel"
          /\ UNCHANGED lv
       \/ \E e \in CollabErrors :
            /\ lv' = [lv EXCEPT !.ret = e]
            /\ pc' = "srch_err"
            /\ UNCHANGED hazard
    /\ UNCHANGED <<btree, cbt, cursor, ret, call, out, wlog>>

\* Mutant: the parent is not released when the child replaces it.
SearchPageReleaseKeepsParent ==
    /\ pc = "srch_rel"
    /\ lv' = [lv EXCEPT !.page = RowDescend(call.key).page]
    /\ pc' = "srch_gen"
    /\ UNCHANGED <<btree, cbt, cursor, ret, call, out, wlog, hazard>>

\* Lines 144-145: release the parent, the child becomes the page.
SearchPageRelease ==
    /\ pc = "srch_rel"
    /\ hazard' = hazard \ {lv.page}
    /\ lv' = [lv EXCEPT !.page = RowDescend(call.key).page]
    /\ pc' = "srch_gen"
    /\ UNCHANGED <<btree, cbt, cursor, ret, call, out, wlog>>

\* Mutant: the leaf is read first and its write generation captured after.
RowSearchStepReadFirst ==
    \/ /\ pc = "srch_gen"
       /\ cbt' = [RowSearchResult(cbt, call.key, call.modify) EXCEPT !.write_gen = 0]
       /\ pc' = "srch_leaf"
       /\ UNCHANGED <<btree, cursor, lv, ret, call, out, wlog, hazard>>
    \/ /\ pc = "srch_leaf"
       /\ cbt' = [cbt EXCEPT !.write_gen =
                      IF call.modify THEN PageWriteGen(cbt.page) ELSE @]
       /\ wlog' = {}
       /\ pc' = "idle"
       /\ ret' = "OK"
       /\ UNCHANGED <<btree, cursor, lv, call, out, hazard>>

\* Lines 153-157, then lines 160-244: the write generation is copied (with
\* the memory flush) and cbt->page set before the leaf's slots and insert
\* list are read; __wt_row_key (line 171) can fail on a leaf that has a slot.
RowSearchStep ==
    \/ /\ pc = "srch_gen"
       /\ cbt' = [cbt EXCEPT !.write_gen =
                      IF call.modify THEN PageWriteGen(lv.page) ELSE @,
                              !.page = lv.page]
       /\ wlog' = {}
       /\ pc' = "srch_leaf"
       /\ UNCHANGED <<btree, cursor, lv, ret, call, out, hazard>>
    \/ /\ pc = "srch_leaf"
       /\ cbt' = [RowSearchResult(cbt, call.key, call.modify)
                     EXCEPT !.write_gen = cbt.write_gen]
       /\ pc' = "idle"
       /\ ret' = "OK"
       /\ UNCHANGED <<btree, cursor, lv, call, out, wlog, hazard>>
    \/ /\ pc = "srch_leaf"
       /\ Entries(lv.page) > 0
       /\ \E e \in CollabErrors : lv' = [lv EXCEPT !.ret = e]
       /\ pc' = "srch_err"
       /\ UNCHANGED <<btree, cbt, cursor, ret, call, out, wlog, hazard>>

\* Lines 246-247: err: release the page held and return the error.
SearchErr ==
    /\ pc = "srch_err"
    /\ hazard' = hazard \ {lv.page}
    /\ ret' = lv.ret
    /\ pc' = "idle"
    /\ UNCHANGED <<btree, cbt, cursor, lv, call, out, wlog>>

NextSearchSteps ==
    \/ \E key \in Keys, is_modify \in BOOLEAN : RowSearchBegin(key, is_modify)
    \/ SearchPageIn
    \/ SearchPageRelease
    \/ RowSearchStep
    \/ SearchErr

SpecSearchSteps == InitSearch /\ [][NextSearchSteps]_vars

NextSearchConc ==
    \/ NextSearchSteps
    \/ \E k \in Keys, u \in {"live", "del"} : WriterInsert(k, u)

\* With a writer the search meets lists that change under it; what a slot or
\* a node carries is not read by the search, so one state of each is kept,
\* and lists have one level, as the nodes the writer publishes.
ConcKStates ==
    {s \in SearchKStates : s.depth <= 1 /\ (s.loc = "slot" => s.upd = "none")}

InitSearchConc ==
    /\ btree \in RowTreesOver(ConcKStates)
    /\ InitCursor

SpecSearchConc == InitSearchConc /\ [][NextSearchConc]_vars

\* C15: a search for modification holds a write generation captured before
\* it read the leaf: if the page has changed since the capture its write
\* generation is above the captured one, and if it is not above, what the
\* search returned is what the page holds now.  A search not for
\* modification leaves the cursor's write generation at 0.
C15_WriteGenCapturedBeforeReads ==
    SearchDone =>
        IF call.modify
        THEN /\ cbt.write_gen <= PageWriteGen(cbt.page)
             /\ wlog # {} => PageWriteGen(cbt.page) > cbt.write_gen
             /\ PageWriteGen(cbt.page) = cbt.write_gen
                    => cbt = RowSearchResult(cbt, call.key, TRUE)
        ELSE cbt.write_gen = 0

\* C15 witness: a writer published the searched key between the capture
\* and the reads of the leaf, and the search for modification found it.
C15_Witness ==
    /\ SearchDone /\ call.modify
    /\ call.key \in wlog
    /\ cbt.ins = call.key
    /\ PageWriteGen(cbt.page) = cbt.write_gen + 1

\* A call of __wt_row_search has returned an error.
SearchFailed == pc = "idle" /\ call.op = "search" /\ ret \in CollabErrors

\* C16: during the descent the child is held before the parent is let go,
\* so the search holds a page at every step; after success the reached
\* leaf is the one page held; when __wt_page_in fails its error is what
\* the search returns, the page held is released and none is held after.
C16_DescentPinning ==
    /\ pc \in {"srch_in", "srch_rel", "srch_gen", "srch_leaf", "srch_err"}
          => lv.page \in hazard
    /\ pc = "srch_rel" => hazard = {lv.page, RowDescend(call.key).page}
    /\ pc = "srch_rel" => PageType(lv.page) = "row_int"
    /\ SearchDone => hazard = {cbt.page} /\ PageType(cbt.page) = "row_leaf"
    /\ SearchFailed => hazard = {} /\ ret = lv.ret

\* C16 witness: __wt_page_in failed below the root internal page and the
\* search returned that error.
C16_Witness ==
    /\ SearchFailed
    /\ lv.page = RootInt /\ PageType(lv.page) = "row_int"
    /\ cbt.page = NULL

\* C19: after __wt_row_search returns, with success or with an error, the
\* cursor's page is unset or is a page the search still holds.
C19_CursorPageHeld ==
    (pc = "idle" /\ call.op = "search" /\ ret # "NONE")
        => (cbt.page = NULL \/ cbt.page \in hazard)

(***************************************************************************)
(* Backward iteration with failing collaborators: inside a page iterator   *)
(* (__wt_row_key, __wt_cell_copy, __wt_cell_unpack_copy, __wt_buf_set) and *)
(* in the page walk (__wt_xxx_np).                                         *)
(***************************************************************************)
\* Lines 282 / 297 (WT_RET), then 358-371: the row iterator's error ends
\* the loop and is returned.
PrevRowSlotFail ==
    /\ pc = "row_slot"
    /\ WT_ROW_UPDATE(cbt.page, cbt.slot) # "del"
    /\ \E e \in CollabErrors : Return(e, cursor, <<>>)
    /\ UNCHANGED <<btree, cbt>>

\* Lines 66 / 138 (WT_RET), then 358-371: the same for a column iterator
\* that has a record to copy.
PrevColFail ==
    /\ pc = "loop"
    /\ cbt.page # NULL
    /\ PageType(cbt.page) \in {"col_fix", "col_var"}
    /\ ColEntries > 0
    /\ \E e \in CollabErrors : Return(e, cursor, <<>>)
    /\ UNCHANGED <<btree, cbt>>

\* Line 363 (WT_ERR), then 370-371: the page walk's error is returned.
PrevWalkFail ==
    /\ pc = "np"
    /\ \E e \in CollabErrors : Return(e, cursor, <<>>)
    /\ UNCHANGED <<btree, cbt>>

NextPrevErr ==
    \/ Next
    \/ PrevFix
    \/ PrevVar
    \/ PrevRowSlotFail
    \/ PrevColFail
    \/ PrevWalkFail

SpecPrevErr == InitAll /\ [][NextPrevErr]_vars

\* C17: __wt_btcur_prev clears the key-set / value-set flags when it starts
\* and sets them again exactly when it returns success with a record; on
\* not-found and on a failure of a page iterator or of the page walk the
\* failure is what is returned, the call ends there (no retry, no further
\* page), and the flags stay unset.
C17_FlagsSetIffSuccess ==
    /\ [](call.op = "prev" =>
            /\ pc # "idle" => ~cursor.set
            /\ (pc = "idle" /\ ret # "NONE") => (cursor.set <=> ret = "OK"))
    /\ [][(call.op = "prev" /\ pc # "idle" /\ pc' = "idle" /\ ret' \in CollabErrors)
            => (cbt' = cbt /\ out' = out /\ ~cursor'.set)]_vars

\* C17 witness: after returning a record, a call failed in the page walk
\* and returned the error with the flags unset.
C17_Witness ==
    /\ pc = "idle" /\ call.op = "prev"
    /\ ret \in CollabErrors
    /\ Len(out) >= 1
    /\ ~cursor.set
    /\ btree.type = "row" /\ cbt.slot = 0 /\ ~cbt.ret_slot

\* C18: a live node that was on its insert list when the iterator entered
\* that slot position is returned by the walk, once, whatever nodes a
\* writer publishes meanwhile.  A node not in wlog was on its list before
\* the scan began, so a scan that has run to not-found has returned it.
C18_NoLiveNodeSkipped ==
    (ScanIdle /\ ret = "WT_NOTFOUND") =>
        /\ \A k \in Keys :
            (/\ btree.kstate[k].loc = "ins"
             /\ btree.kstate[k].upd = "live"
             /\ k \notin wlog)
                => k \in {out[i].key : i \in 1..Len(out)}
        /\ \A i, j \in 1..Len(out) : i # j => out[i].key # out[j].key

====
